---- MODULE Spec2Model ----
(***************************************************************************)
(* Model of the timekeep work-hours tracker: TimeTrackingService (event    *)
(* log, session reconstruction, totals, persistence), NotificationService  *)
(* (threshold / target alerts, poll, reactive effect, delivery             *)
(* continuations) and ClockComponent.onToggleClock.                        *)
(*                                                                         *)
(* Time is kept in milliseconds, as in the source.  The model's clock      *)
(* advances one hour at a time and the configuration is given in whole     *)
(* hours, so every duration is a multiple of one hour and the division in  *)
(* millisecondsToHours is exact.  Local midnight is a multiple of 24 h.    *)
(***************************************************************************)
EXTENDS Integers, Sequences, FiniteSets, TLC

\* ------------------------------------------------------------------ bounds
MaxEntries == 3       \* clock events accepted in one run
MaxTicks == 2         \* hours the wall clock advances in one run
MaxInflight == 2      \* delivery continuations of one kind awaiting completion
MaxTargetHours == 2   \* largest configured target (hours)
StartHour == 46       \* wall clock at construction: day 1, 22:00
MaxCalcLen == 4       \* events handed to calculateSessions on its own
CountCap == 2         \* the per-stretch delivery counters saturate here

VARIABLES
    now,                              \* wall clock, ms (new Date().getTime())
    workHoursConfig,                  \* WORK_HOURS_CONFIG
    entries,                          \* TimeTrackingService.entries signal
    todayEntries,                     \* memoised computed todayEntries
    currentSessionDuration,           \* memoised computed currentSessionDuration
    isDataLoaded,
    storedEntries,                    \* localStorage[STORAGE_KEY]
    lastAccess,                       \* localStorage[LAST_ACCESS_KEY]
    storedCorrupt,                    \* the text under STORAGE_KEY is not JSON
    writeFailed,                      \* the last saveToStorage threw and was logged
    quotaTight,                       \* the storage is near its quota: setItem may throw
    savePending,                      \* save effect scheduled
    notifyPending,                    \* notification effect scheduled
    notificationShown,
    targetReachedNotificationShown,
    permissionGranted,
    checkInterval,                    \* the poll timer is running
    browserPermission,                \* Notification.permission
    storedPermission,                 \* localStorage[PERMISSION_STORAGE_KEY]
    swEnabled,                        \* service-worker delivery path available
    reconstructed,                    \* a result of calculateSessions, or Null
    promptPending,                    \* requestPermission() calls awaiting the user
    pendingWorkHours,                 \* showWorkHoursNotification awaiting delivery
    pendingClockOut,                  \* showClockOutNotification awaiting delivery
    phase,                            \* "constructed" | "loaded" | "running"
    idCounter,                        \* ids handed out by generateId so far
    \* history of the current clocked-in stretch
    thresholdInitiated,
    thresholdDelivered,
    thresholdFailed,
    targetInitiated,
    thresholdAttempts,                \* calls of showWorkHoursNotification in the stretch
    clockOutRejected,                 \* the last clock call was rejected with a warning
    \* what the clock-in / clock-out notifications of the last click did
    clockOutSummary,                  \* hours in the summary's body, in hundredths
    acksInitiated,                    \* 'clocked in' deliveries started since the last click
    ackWaiting                        \* showClockInNotification calls awaiting the prompt

vars == <<now, workHoursConfig, entries, todayEntries, currentSessionDuration,
          isDataLoaded, storedEntries, lastAccess, storedCorrupt, writeFailed,
          quotaTight, savePending, notifyPending,
          notificationShown, targetReachedNotificationShown, permissionGranted,
          checkInterval, browserPermission, storedPermission, swEnabled,
          reconstructed,
          promptPending, pendingWorkHours, pendingClockOut, phase, idCounter,
          thresholdInitiated, thresholdDelivered, thresholdFailed,
          targetInitiated, thresholdAttempts, clockOutRejected,
          clockOutSummary, acksInitiated, ackWaiting>>

\* an absent value (null, undefined, a missing localStorage item) is <<>>, a
\* present value x is <<x>>
Null == <<>>

Some(x) == <<x>>

Value(opt) == opt[1]

\* localStorage.getItem(PERMISSION_STORAGE_KEY) when the item is missing
NoPermission == "none"

\* ------------------------------------------------------------ conversions
hoursToMilliseconds(hours) == hours * 60 * 60 * 1000

\* milliseconds / (1000 * 60 * 60); exact on the model's whole-hour durations
millisecondsToHours(milliseconds) == milliseconds \div (1000 * 60 * 60)

MsPerDay == 24 * 60 * 60 * 1000

\* d.setHours(0, 0, 0, 0); d.getTime()
startOfDay(ts) == (ts \div MsPerDay) * MsPerDay

\* the YYYY-MM-DD string of a local date, represented by its day index
getTodayDateString(t) == t \div MsPerDay

Min(a, b) == IF a <= b THEN a ELSE b

\* ------------------------------------------------ timestamps in storage
\* In memory a timestamp is a Date: its getTime() in ms, or InvalidDate (NaN).
\* In storage it is what JSON holds: the ISO string of a valid Date (kept as
\* its ms), text that is no date, or null.
InvalidDate == -1

GarbageTimestamp == -2

NullTimestamp == -3

\* new Date(raw).getTime() for a raw stored timestamp; new Date(null) is the epoch
parseTimestamp(raw) ==
    IF raw = NullTimestamp THEN 0
    ELSE IF raw = GarbageTimestamp THEN InvalidDate
    ELSE raw

\* Date.prototype.toJSON: the ISO string, null for an invalid Date
toJSON(ts) == IF ts = InvalidDate THEN NullTimestamp ELSE ts

\* JSON.stringify(entries)
stringify(es) ==
    [i \in 1..Len(es) |-> [es[i] EXCEPT !.timestamp = toJSON(es[i].timestamp)]]

\* parsed.map(e => ({...e, timestamp: new Date(e.timestamp)}))
parseEntries(raws) ==
    [i \in 1..Len(raws) |->
         [raws[i] EXCEPT !.timestamp = parseTimestamp(raws[i].timestamp)]]

\* ------------------------------------------------- session reconstruction
RECURSIVE InsertByTimestamp(_, _)
\* position of e in an ascending sequence: after every element that is not later
InsertByTimestamp(e, sorted) ==
    IF sorted = <<>> THEN <<e>>
    ELSE IF Head(sorted).timestamp <= e.timestamp
         THEN <<Head(sorted)>> \o InsertByTimestamp(e, Tail(sorted))
         ELSE <<e>> \o sorted

RECURSIVE SortByTimestamp(_)
\* [...es].sort((a, b) => a.timestamp - b.timestamp): ascending and stable
SortByTimestamp(es) ==
    IF es = <<>> THEN <<>>
    ELSE InsertByTimestamp(es[Len(es)], SortByTimestamp(SubSeq(es, 1, Len(es) - 1)))

RECURSIVE ScanSessionsKeepFirst(_, _, _)
\* a scan in which an 'in' does not replace a pending clock-in
ScanSessionsKeepFirst(sorted, open, sessions) ==
    IF sorted = <<>> THEN sessions
    ELSE LET entry == Head(sorted) IN
         IF entry.type = "in"
         THEN ScanSessionsKeepFirst(Tail(sorted),
                  IF open # Null THEN open ELSE Some(entry.timestamp), sessions)
         ELSE IF open # Null
              THEN ScanSessionsKeepFirst(Tail(sorted), Null,
                       Append(sessions, [clockIn |-> Value(open),
                                         clockOut |-> entry.timestamp,
                                         duration |-> entry.timestamp - Value(open)]))
              ELSE ScanSessionsKeepFirst(Tail(sorted), open, sessions)

RECURSIVE ScanSessionsStrayOut(_, _, _)
\* a scan in which an 'out' without a pending clock-in emits an empty session
ScanSessionsStrayOut(sorted, open, sessions) ==
    IF sorted = <<>> THEN sessions
    ELSE LET entry == Head(sorted) IN
         IF entry.type = "in"
         THEN ScanSessionsStrayOut(Tail(sorted), Some(entry.timestamp), sessions)
         ELSE IF open # Null
              THEN ScanSessionsStrayOut(Tail(sorted), Null,
                       Append(sessions, [clockIn |-> Value(open),
                                         clockOut |-> entry.timestamp,
                                         duration |-> entry.timestamp - Value(open)]))
              ELSE ScanSessionsStrayOut(Tail(sorted), open,
                       Append(sessions, [clockIn |-> entry.timestamp,
                                         clockOut |-> entry.timestamp,
                                         duration |-> 0]))

RECURSIVE ScanSessions(_, _, _)
\* the for-loop of calculateSessions; open is the pending clock-in or Null
ScanSessions(sorted, open, sessions) ==
    IF sorted = <<>> THEN sessions
    ELSE LET entry == Head(sorted) IN
         IF entry.type = "in"
         THEN ScanSessions(Tail(sorted), Some(entry.timestamp), sessions)
         ELSE IF open # Null
              THEN ScanSessions(Tail(sorted), Null,
                       Append(sessions, [clockIn |-> Value(open),
                                         clockOut |-> entry.timestamp,
                                         duration |-> entry.timestamp - Value(open)]))
              ELSE ScanSessions(Tail(sorted), open, sessions)

\* a reconstruction that scans the events in the order it is given them
calculateSessionsUnsorted(es) == ScanSessions(es, Null, <<>>)

calculateSessions(es) == ScanSessions(SortByTimestamp(es), Null, <<>>)

RECURSIVE ScanOpen(_, _)
\* currentSession at the end of the for-loop of calculateSessions: the
\* pending clock-in, or Null
ScanOpen(sorted, open) ==
    IF sorted = <<>> THEN open
    ELSE LET entry == Head(sorted) IN
         IF entry.type = "in" THEN ScanOpen(Tail(sorted), Some(entry.timestamp))
         ELSE ScanOpen(Tail(sorted), Null)

\* the pending clock-in that reconstruction over es ends with
openSince(es) == ScanOpen(SortByTimestamp(es), Null)

RECURSIVE SumDurations(_)
\* sessions.reduce((sum, session) => sum + session.duration, 0)
SumDurations(sessions) ==
    IF sessions = <<>> THEN 0
    ELSE Head(sessions).duration + SumDurations(Tail(sessions))

\* ------------------------------------------------------ computed signals
\* a last-event test that looks at the first event of the sorted log
isClockedInFirst(es) ==
    LET sorted == SortByTimestamp(es)
    IN  Len(sorted) > 0 /\ sorted[1].type = "in"

isClockedInOf(es) ==
    LET sorted == SortByTimestamp(es)
    IN  Len(sorted) > 0 /\ sorted[Len(sorted)].type = "in"

todayEntriesOf(es, t) ==
    SelectSeq(es, LAMBDA e : startOfDay(e.timestamp) = startOfDay(t))

currentSessionDurationOf(es, t) ==
    IF ~isClockedInOf(es) THEN 0
    ELSE LET sorted == SortByTimestamp(es)
         IN  t - sorted[Len(sorted)].timestamp

totalOf(es, today, duration) ==
    SumDurations(calculateSessions(today))
        + (IF isClockedInOf(es) THEN duration ELSE 0)

workHoursTarget == hoursToMilliseconds(workHoursConfig.targetHours)

notificationThreshold ==
    hoursToMilliseconds(workHoursConfig.targetHours
                            - workHoursConfig.notificationOffsetHours)

isClockedIn == isClockedInOf(entries)

todaySessions == calculateSessions(todayEntries)

totalWorkTimeToday == totalOf(entries, todayEntries, currentSessionDuration)

shouldNotifyOf(es, today, duration) ==
    isClockedInOf(es) /\ totalOf(es, today, duration) >= notificationThreshold

shouldNotify == shouldNotifyOf(entries, todayEntries, currentSessionDuration)

\* calculateCurrentSessionDuration with the subtraction turned around
calculateCurrentSessionDurationReversed(today, t) ==
    IF Len(today) = 0 THEN 0
    ELSE LET sorted == SortByTimestamp(today)
             lastEntry == sorted[Len(sorted)]
         IN  IF lastEntry.type # "in" THEN 0 ELSE lastEntry.timestamp - t

\* NotificationService.calculateCurrentSessionDuration (read by the poll)
calculateCurrentSessionDuration(today, t) ==
    IF Len(today) = 0 THEN 0
    ELSE LET sorted == SortByTimestamp(today)
             lastEntry == sorted[Len(sorted)]
         IN  IF lastEntry.type # "in" THEN 0 ELSE t - lastEntry.timestamp

\* totalMilliseconds as the poll computes it from the log es, the memoised
\* todayEntries and the clock t
pollTotalOf(es, today, t) ==
    SumDurations(calculateSessions(today))
        + (IF isClockedInOf(es) THEN calculateCurrentSessionDuration(today, t)
           ELSE 0)

pollTotalMilliseconds == pollTotalOf(entries, todayEntries, now)

\* ClockComponent.currentSessionDuration: re-evaluated every second through
\* the currentTime signal, from isClockedIn and the memoised todayEntries
componentCurrentSessionDuration(es, today, t) ==
    IF ~isClockedInOf(es) THEN 0
    ELSE IF Len(today) = 0 THEN 0
    ELSE LET sorted == SortByTimestamp(today)
         IN  t - sorted[Len(sorted)].timestamp

\* ClockComponent.totalWorkTimeToday, the total on display
componentTotalWorkTimeToday ==
    SumDurations(todaySessions)
        + (IF isClockedIn
           THEN componentCurrentSessionDuration(entries, todayEntries, now)
           ELSE 0)

Max(a, b) == IF a >= b THEN a ELSE b

\* the remaining hours without the clamp at zero
remainingUnclamped(target, total) == millisecondsToHours(target - total)

\* Math.max(0, millisecondsToHours(target - total))
remaining(target, total) == Max(0, millisecondsToHours(target - total))

\* TimeTrackingService.hoursUntilTarget
hoursUntilTarget == remaining(workHoursTarget, totalWorkTimeToday)

\* ClockComponent.hoursUntilTarget, over the component's live total
componentHoursUntilTarget == remaining(workHoursTarget, componentTotalWorkTimeToday)

\* ------------------------------------------------------------------ frames
clockVars == <<now>>
envVars == <<workHoursConfig, swEnabled, reconstructed, quotaTight>>
logVars == <<entries, todayEntries, currentSessionDuration, idCounter>>
storeVars == <<isDataLoaded, storedEntries, lastAccess, storedCorrupt, writeFailed>>
effectVars == <<savePending, notifyPending>>
flagVars == <<notificationShown, targetReachedNotificationShown>>
permVars == <<permissionGranted, browserPermission, storedPermission, promptPending>>
histVars == <<thresholdInitiated, thresholdDelivered, thresholdFailed, targetInitiated,
              thresholdAttempts>>
ackVars == <<clockOutSummary, acksInitiated, ackWaiting>>

\* ------------------------------------------------------------------- Init
\* the configurations a run may be started with: whole hours, offset <= target
Configs ==
    { [targetHours |-> t, notificationOffsetHours |-> o] :
          t \in 1..MaxTargetHours, o \in 0..MaxTargetHours }
        \cap { c \in [targetHours : 1..MaxTargetHours,
                      notificationOffsetHours : 0..MaxTargetHours] :
                   c.notificationOffsetHours <= c.targetHours }

\* what earlier runs may have left in localStorage
InitialStorage ==
    { [events |-> Null, marker |-> Null, corrupt |-> FALSE],
      \* a run started yesterday and closed its session an hour ago
      [events |-> Some(<< [id |-> -1, type |-> "in",
                           timestamp |-> hoursToMilliseconds(StartHour - 24)],
                          [id |-> 0, type |-> "out",
                           timestamp |-> hoursToMilliseconds(StartHour - 1)] >>),
       marker |-> Some(getTodayDateString(hoursToMilliseconds(StartHour - 24))),
       corrupt |-> FALSE],
      \* an open session started an hour ago
      [events |-> Some(<< [id |-> 0, type |-> "in",
                           timestamp |-> hoursToMilliseconds(StartHour - 1)] >>),
       marker |-> Some(getTodayDateString(hoursToMilliseconds(StartHour - 1))),
       corrupt |-> FALSE] }

\* what a damaged or hand-edited storage may hold
DamagedStorage ==
    { \* text that JSON.parse rejects, left yesterday
      [events |-> Null,
       marker |-> Some(getTodayDateString(hoursToMilliseconds(StartHour - 24))),
       corrupt |-> TRUE],
      \* a list of today with one timestamp that is no date
      [events |-> Some(<< [id |-> -1, type |-> "out",
                           timestamp |-> GarbageTimestamp],
                          [id |-> 0, type |-> "in",
                           timestamp |-> hoursToMilliseconds(StartHour - 1)] >>),
       marker |-> Some(getTodayDateString(hoursToMilliseconds(StartHour - 1))),
       corrupt |-> FALSE],
      \* the same list, last read yesterday
      [events |-> Some(<< [id |-> -1, type |-> "out",
                           timestamp |-> GarbageTimestamp],
                          [id |-> 0, type |-> "in",
                           timestamp |-> hoursToMilliseconds(StartHour - 1)] >>),
       marker |-> Some(getTodayDateString(hoursToMilliseconds(StartHour - 24))),
       corrupt |-> FALSE] }

\* Notification.permission and the stored permission left by earlier runs
InitialPermissions ==
    { <<"default", NoPermission>>, <<"granted", "granted">>,
      <<"denied", NoPermission>>, <<"denied", "granted">> }

\* State after the services and ClockComponent are constructed: the effects
\* have run once on the empty log, and the component's constructor has called
\* requestPermission() (its synchronous part).
Init ==
    /\ now = hoursToMilliseconds(StartHour)
    /\ workHoursConfig \in Configs
    /\ swEnabled \in BOOLEAN
    /\ reconstructed = Null
    /\ entries = <<>>
    /\ todayEntries = <<>>
    /\ currentSessionDuration = 0
    /\ idCounter = 0
    /\ isDataLoaded = FALSE
    /\ \E st \in InitialStorage :
           /\ storedEntries = st.events
           /\ lastAccess = st.marker
           /\ storedCorrupt = st.corrupt
    /\ writeFailed = FALSE
    /\ quotaTight = FALSE
    /\ savePending = FALSE
    /\ notifyPending = FALSE
    /\ notificationShown = FALSE
    /\ targetReachedNotificationShown = FALSE
    /\ checkInterval = FALSE
    /\ \E p \in InitialPermissions :
           /\ browserPermission = p[1]
           /\ permissionGranted = (p[1] = "granted")
           /\ storedPermission = (IF p[1] = "granted" THEN "granted" ELSE p[2])
           /\ promptPending = (p[1] = "default")
    /\ pendingWorkHours = 0
    /\ pendingClockOut = 0
    /\ phase = "constructed"
    /\ thresholdInitiated = 0
    /\ thresholdDelivered = 0
    /\ thresholdFailed = FALSE
    /\ targetInitiated = 0
    /\ thresholdAttempts = 0
    /\ clockOutRejected = FALSE
    /\ clockOutSummary = Null
    /\ acksInitiated = 0
    /\ ackWaiting = 0

\* ------------------------------------------------------- signal plumbing
\* entries.set / entries.update: the computeds are re-evaluated on their next
\* read, which happens at this clock instant (see Tick), the save effect is
\* scheduled, and the notification effect is scheduled when one of the values
\* it read (shouldNotify, isClockedIn, totalWorkTimeToday) changed.
SetEntries(es) ==
    LET today == todayEntriesOf(es, now)
        duration == currentSessionDurationOf(es, now)
    IN  /\ entries' = es
        /\ todayEntries' = today
        /\ currentSessionDuration' = duration
        /\ savePending' = TRUE
        /\ notifyPending' =
               (\/ notifyPending
                \/ <<shouldNotifyOf(es, today, duration), isClockedInOf(es),
                     totalOf(es, today, duration)>>
                       # <<shouldNotify, isClockedIn, totalWorkTimeToday>>)

\* a new clocked-in stretch, or none: the per-stretch history starts over
ResetHistory ==
    /\ thresholdInitiated' = 0
    /\ thresholdDelivered' = 0
    /\ thresholdFailed' = FALSE
    /\ targetInitiated' = 0
    /\ thresholdAttempts' = 0

\* -------------------------------------------------------------- start-up
\* a cleanup that writes the list back unfiltered
cleanupKeepsAll(stored) == stored

\* cleanupOldEntries: the stored list with only today's entries kept.  With
\* no item, or with text that JSON.parse rejects (no list is readable, the
\* error is caught), the item is left as it is.
cleanupOldEntries(stored) ==
    IF stored = Null THEN Null
    ELSE Some(SelectSeq(Value(stored),
                  LAMBDA e : startOfDay(parseTimestamp(e.timestamp)) = startOfDay(now)))

\* a rollover that drops the oldest stored event at every start
rolloverDropsOldest(stored, marker) ==
    [events |-> IF stored = Null \/ Value(stored) = <<>> THEN stored
                ELSE Some(Tail(Value(stored))),
     marker |-> marker]

\* the rollover phase of initializeData: what it leaves under the two keys
rollover(stored, marker) ==
    LET today == Some(getTodayDateString(now))
    IN  [events |-> IF marker # today THEN cleanupOldEntries(stored) ELSE stored,
         marker |-> today]

\* a load whose catch block resets the log
loadFromStorageResetsOnError(stored, corrupt) ==
    IF corrupt THEN Some(<<>>)
    ELSE IF stored = Null THEN Null
    ELSE Some(parseEntries(Value(stored)))

\* loadFromStorage: the list handed to entries.set, or Null when the item is
\* missing or JSON.parse throws (caught and logged)
loadFromStorage(stored, corrupt) ==
    IF corrupt \/ stored = Null THEN Null
    ELSE Some(parseEntries(Value(stored)))

\* an initializeData that loads the log before the rollover ran
loadedBeforeRollover(stored, marker, corrupt) ==
    loadFromStorage(stored, corrupt)

\* what initializeData loads: loadFromStorage reads the item that
\* cleanupOldEntries has just rewritten
loadedAtInit(stored, marker, corrupt) ==
    loadFromStorage(rollover(stored, marker).events, corrupt)

\* TimeTrackingService.initializeData (afterNextRender)
initializeData ==
    /\ phase = "constructed"
    /\ LET rolled == rollover(storedEntries, lastAccess)
           loaded == loadedAtInit(storedEntries, lastAccess, storedCorrupt)
       IN  /\ storedEntries' = rolled.events
           /\ lastAccess' = rolled.marker
           /\ IF loaded # Null
              THEN SetEntries(Value(loaded))
              ELSE UNCHANGED <<entries, todayEntries, currentSessionDuration,
                               savePending, notifyPending>>
    /\ UNCHANGED <<storedCorrupt, writeFailed>>
    /\ isDataLoaded' = TRUE
    /\ phase' = "loaded"
    /\ ResetHistory
    /\ UNCHANGED <<clockVars, envVars, idCounter, flagVars, permVars,
                   checkInterval, pendingWorkHours, pendingClockOut,
                   clockOutRejected, ackVars>>

\* NotificationService.initNotifications (afterNextRender)
initNotifications ==
    /\ phase = "loaded"
    /\ permissionGranted' = (\/ permissionGranted
                             \/ storedPermission = "granted"
                             \/ browserPermission = "granted")
    /\ storedPermission' = (IF browserPermission = "granted"
                            THEN "granted" ELSE storedPermission)
    /\ checkInterval' = TRUE
    /\ phase' = "running"
    /\ UNCHANGED <<clockVars, envVars, logVars, storeVars, effectVars, flagVars,
                   browserPermission, promptPending, pendingWorkHours,
                   pendingClockOut, histVars, clockOutRejected, ackVars>>

\* ------------------------------------------------- notification delivery
\* What one call of showWorkHoursNotification does before it returns or
\* yields; ok is whether the delivery call succeeds.
\*   shown     notificationShown when the caller resumes
\*   pending   continuations left awaiting the delivery (they set the flag)
\*   initiated deliveries started; delivered: those that succeed; failed
showWorkHoursNotification(ok) ==
    IF ~permissionGranted
    THEN [shown |-> notificationShown, pending |-> 0, initiated |-> 0,
          delivered |-> 0, failed |-> FALSE, attempted |-> 1]
    ELSE IF swEnabled
         \* await registration.showNotification(...); the flag is set after it
         THEN [shown |-> notificationShown, pending |-> IF ok THEN 1 ELSE 0,
               initiated |-> 1, delivered |-> IF ok THEN 1 ELSE 0,
               failed |-> ~ok, attempted |-> 1]
         \* new Notification(...); the flag is set unless it throws
         ELSE [shown |-> (ok \/ notificationShown), pending |-> 0,
               initiated |-> 1, delivered |-> IF ok THEN 1 ELSE 0,
               failed |-> ~ok, attempted |-> 1]

NoCall ==
    [shown |-> notificationShown, pending |-> 0, initiated |-> 0,
     delivered |-> 0, failed |-> FALSE, attempted |-> 0]

\* the history of the stretch after a call with outcome out
RecordThreshold(out) ==
    /\ thresholdInitiated' = Min(CountCap, thresholdInitiated + out.initiated)
    /\ thresholdDelivered' = Min(CountCap, thresholdDelivered + out.delivered)
    /\ thresholdFailed' = (thresholdFailed \/ out.failed)
    /\ thresholdAttempts' = Min(CountCap, thresholdAttempts + out.attempted)

\* showTargetReachedNotification delivers only with permission
showTargetReachedNotification == IF permissionGranted THEN 1 ELSE 0

\* the decisions of the reactive effect (NotificationService constructor)
effectCallsThreshold == shouldNotify /\ isClockedIn /\ ~notificationShown

\* the effect without its reset block
effectNeverResets == FALSE

effectResets == ~isClockedIn

\* the decisions of one poll evaluation (startPeriodicCheck's callback)
pollHoursWorked == millisecondsToHours(pollTotalMilliseconds)

\* the poll's threshold test without the clocked-in check
pollCallsThresholdAnyState ==
    /\ pollHoursWorked >= workHoursConfig.targetHours
                              - workHoursConfig.notificationOffsetHours
    /\ ~notificationShown

pollCallsThreshold ==
    /\ isClockedIn
    /\ pollHoursWorked >= workHoursConfig.targetHours
                              - workHoursConfig.notificationOffsetHours
    /\ ~notificationShown

\* the poll's target test without the check of the threshold flag
pollCallsTargetUngated(shownNow) ==
    /\ isClockedIn
    /\ pollHoursWorked >= workHoursConfig.targetHours
    /\ ~targetReachedNotificationShown

pollCallsTarget(shownNow) ==
    /\ isClockedIn
    /\ pollHoursWorked >= workHoursConfig.targetHours
    /\ shownNow
    /\ ~targetReachedNotificationShown

\* ---------------------------------------------------------------- effects
\* the save effect writing before the load has finished
saveEffectUngated ==
    IF savePending
    THEN \E ok \in (IF quotaTight THEN BOOLEAN ELSE {TRUE}) :
           /\ writeFailed' = ~ok
           /\ IF ok
              THEN storedEntries' = Some(stringify(entries)) /\ storedCorrupt' = FALSE
              ELSE UNCHANGED <<storedEntries, storedCorrupt>>
    ELSE UNCHANGED <<storedEntries, storedCorrupt, writeFailed>>

\* a saveToStorage whose catch block removes the item
saveEffectClearsOnError ==
    IF savePending /\ isDataLoaded
    THEN \E ok \in (IF quotaTight THEN BOOLEAN ELSE {TRUE}) :
           /\ writeFailed' = ~ok
           /\ storedCorrupt' = FALSE
           /\ storedEntries' = IF ok THEN Some(stringify(entries)) ELSE Null
    ELSE UNCHANGED <<storedEntries, storedCorrupt, writeFailed>>

\* TimeTrackingService's save effect: saveToStorage(entries) once loaded;
\* setItem may throw (quota), which saveToStorage catches and logs
saveEffect ==
    IF savePending /\ isDataLoaded
    THEN \E ok \in (IF quotaTight THEN BOOLEAN ELSE {TRUE}) :
           /\ writeFailed' = ~ok
           /\ IF ok
              THEN storedEntries' = Some(stringify(entries)) /\ storedCorrupt' = FALSE
              ELSE UNCHANGED <<storedEntries, storedCorrupt>>
    ELSE UNCHANGED <<storedEntries, storedCorrupt, writeFailed>>

\* NotificationService's effect
notifyEffect ==
    IF ~notifyPending
    THEN UNCHANGED <<flagVars, pendingWorkHours, histVars>>
    ELSE \E ok \in BOOLEAN :
           LET out == IF effectCallsThreshold
                      THEN showWorkHoursNotification(ok) ELSE NoCall
           IN  /\ pendingWorkHours + out.pending <= MaxInflight
               /\ pendingWorkHours' = pendingWorkHours + out.pending
               /\ RecordThreshold(out)
               /\ UNCHANGED targetInitiated
               /\ IF effectResets
                  THEN /\ notificationShown' = FALSE
                       /\ targetReachedNotificationShown' = FALSE
                  ELSE /\ notificationShown' = out.shown
                       /\ UNCHANGED targetReachedNotificationShown

\* one flush of the scheduled root effects
FlushEffects ==
    /\ savePending \/ notifyPending
    /\ saveEffect
    /\ notifyEffect
    /\ savePending' = FALSE
    /\ notifyPending' = FALSE
    /\ UNCHANGED <<clockVars, envVars, logVars, isDataLoaded, lastAccess,
                   permVars, checkInterval, pendingClockOut, phase,
                   clockOutRejected, ackVars>>

\* ------------------------------------------------------------------- poll
\* the setInterval callback of startPeriodicCheck
periodicCheck ==
    /\ checkInterval
    /\ \E ok \in BOOLEAN :
         LET out == IF pollCallsThreshold
                    THEN showWorkHoursNotification(ok) ELSE NoCall
             target == pollCallsTarget(out.shown)
         IN  /\ pendingWorkHours + out.pending <= MaxInflight
             /\ pendingWorkHours' = pendingWorkHours + out.pending
             /\ RecordThreshold(out)
             /\ notificationShown' = out.shown
             /\ IF target
                THEN /\ targetReachedNotificationShown' = TRUE
                     /\ targetInitiated' =
                            Min(CountCap, targetInitiated
                                              + showTargetReachedNotification)
                ELSE UNCHANGED <<targetReachedNotificationShown, targetInitiated>>
    /\ UNCHANGED <<clockVars, envVars, logVars, storeVars, effectVars, permVars,
                   checkInterval, pendingClockOut, phase, clockOutRejected, ackVars>>

\* ---------------------------------------------------------- clock actions
newEntry(kind) == [id |-> idCounter + 1, timestamp |-> now, type |-> kind]

\* a clock-in that is put off while the permission prompt is open
clockInDeferred ==
    IF browserPermission = "default"
    THEN /\ clockOutRejected' = FALSE
         /\ UNCHANGED <<logVars, effectVars>>
    ELSE /\ SetEntries(Append(entries, newEntry("in")))
         /\ idCounter' = idCounter + 1
         /\ clockOutRejected' = FALSE

\* TimeTrackingService.clockIn
clockIn ==
    /\ SetEntries(Append(entries, newEntry("in")))
    /\ idCounter' = idCounter + 1
    /\ clockOutRejected' = FALSE

\* clockOut without its isClockedIn guard
clockOutUnguarded ==
    /\ SetEntries(Append(entries, newEntry("out")))
    /\ idCounter' = idCounter + 1
    /\ clockOutRejected' = FALSE

\* TimeTrackingService.clockOut: rejected with a warning when not clocked in
clockOut ==
    IF ~isClockedIn
    THEN /\ clockOutRejected' = TRUE
         /\ UNCHANGED <<logVars, effectVars>>
    ELSE /\ SetEntries(Append(entries, newEntry("out")))
         /\ idCounter' = idCounter + 1
         /\ clockOutRejected' = FALSE

\* the synchronous part of NotificationService.requestPermission
requestPermission ==
    /\ permissionGranted' = (permissionGranted \/ browserPermission = "granted")
    /\ storedPermission' = (IF browserPermission = "granted"
                            THEN "granted" ELSE storedPermission)
    /\ promptPending' = (promptPending \/ browserPermission = "default")
    /\ UNCHANGED browserPermission

\* showClockOutNotification up to its first await
showClockOutNotification ==
    IF ~permissionGranted
    THEN UNCHANGED <<flagVars, pendingClockOut>>
    ELSE IF swEnabled
         THEN /\ pendingClockOut < MaxInflight
              /\ pendingClockOut' = pendingClockOut + 1
              /\ UNCHANGED flagVars
         ELSE /\ notificationShown' = FALSE
              /\ targetReachedNotificationShown' = FALSE
              /\ UNCHANGED pendingClockOut

\* an acknowledgement that is skipped while the threshold flag is set
showClockInNotificationGated ==
    /\ acksInitiated' = (IF browserPermission = "granted" /\ ~notificationShown
                         THEN 1 ELSE 0)
    /\ ackWaiting' = (IF browserPermission = "default"
                      THEN ackWaiting + 1 ELSE ackWaiting)

\* showClockInNotification: it awaits requestPermission, returns unless the
\* answer is 'granted', and then starts one delivery; nothing follows the
\* delivery, so its settling changes no state
showClockInNotification ==
    /\ acksInitiated' = (IF browserPermission = "granted" THEN 1 ELSE 0)
    /\ ackWaiting' = (IF browserPermission = "default"
                      THEN ackWaiting + 1 ELSE ackWaiting)

\* Number.toFixed(2) of millisecondsToHours(ms), in hundredths of an hour
\* (round half up: 390000 ms is 0.108 h and renders as 0.11)
toFixed2(ms) == (ms + 18000) \div 36000

\* a summary that reads the total of the log as it was before the click
clockOutHoursWorkedStale(before, es, today, duration) ==
    totalOf(before, todayEntriesOf(before, now), duration)

\* the argument of showClockOutNotification: totalWorkTimeToday() read after
\* toggleClock() returned, over the log es with its views today and duration
clockOutHoursWorked(before, es, today, duration) ==
    totalOf(es, today, duration)

\* a handler that waits for the clock-in notification before the next click
toggleBlockedByPendingDelivery == ackWaiting > 0

\* onToggleClock calls toggleClock() before its first await, so nothing that a
\* previous click still awaits holds a click back
toggleBlocked == FALSE

\* ClockComponent.onToggleClock
onToggleClock ==
    /\ phase = "running"
    /\ ~savePending /\ ~notifyPending
    /\ Len(entries) < MaxEntries /\ idCounter < MaxEntries
    /\ ~toggleBlocked
    /\ IF isClockedIn
       THEN /\ clockOut
            /\ showClockOutNotification
            /\ clockOutSummary' =
                   (IF permissionGranted
                    THEN Some(toFixed2(clockOutHoursWorked(
                                  entries, entries', todayEntries',
                                  currentSessionDuration')))
                    ELSE Null)
            /\ acksInitiated' = 0
            /\ UNCHANGED <<permVars, ackWaiting>>
       ELSE /\ clockIn
            /\ requestPermission
            /\ showClockInNotification
            /\ clockOutSummary' = Null
            /\ UNCHANGED <<flagVars, pendingClockOut>>
    /\ ResetHistory
    /\ UNCHANGED <<clockVars, envVars, storeVars, checkInterval,
                   pendingWorkHours, phase>>

\* TimeTrackingService.toggleClock() called by a holder of the service before
\* the start-up load has run (afterwards the caller is onToggleClock)
toggleClock ==
    /\ phase = "constructed"
    /\ ~savePending /\ ~notifyPending
    /\ Len(entries) < MaxEntries /\ idCounter < MaxEntries
    /\ IF isClockedIn THEN clockOut ELSE clockIn
    /\ ResetHistory
    /\ UNCHANGED <<clockVars, envVars, storeVars, flagVars, permVars,
                   checkInterval, pendingWorkHours, pendingClockOut, phase,
                   ackVars>>

\* TimeTrackingService.clearAllData
clearAllData ==
    /\ phase = "running"
    /\ ~savePending /\ ~notifyPending
    /\ SetEntries(<<>>)
    /\ storedEntries' = Null
    /\ lastAccess' = Null
    /\ storedCorrupt' = FALSE
    /\ ResetHistory
    /\ clockOutRejected' = FALSE
    /\ UNCHANGED <<clockVars, envVars, idCounter, isDataLoaded, writeFailed,
                   flagVars, permVars, checkInterval, pendingWorkHours,
                   pendingClockOut, phase, ackVars>>

\* TimeTrackingService.clockOut() called on its own
clockOutCall ==
    /\ phase = "running"
    /\ ~savePending /\ ~notifyPending
    /\ Len(entries) < MaxEntries /\ idCounter < MaxEntries
    /\ clockOut
    /\ IF isClockedIn THEN ResetHistory ELSE UNCHANGED histVars
    /\ UNCHANGED <<clockVars, envVars, storeVars, flagVars, permVars,
                   checkInterval, pendingWorkHours, pendingClockOut, phase,
                   ackVars>>

\* ----------------------------------------------------------- completions
\* the delivery awaited by showWorkHoursNotification resolves
workHoursDelivered ==
    /\ pendingWorkHours > 0
    /\ pendingWorkHours' = pendingWorkHours - 1
    /\ notificationShown' = TRUE
    /\ UNCHANGED <<clockVars, envVars, logVars, storeVars, effectVars,
                   targetReachedNotificationShown, permVars, checkInterval,
                   pendingClockOut, phase, histVars, clockOutRejected, ackVars>>

\* the delivery awaited by showClockOutNotification settles, either way
clockOutSettled ==
    /\ pendingClockOut > 0
    /\ pendingClockOut' = pendingClockOut - 1
    /\ notificationShown' = FALSE
    /\ targetReachedNotificationShown' = FALSE
    /\ UNCHANGED <<clockVars, envVars, logVars, storeVars, effectVars,
                   permVars, checkInterval, pendingWorkHours, phase, histVars,
                   clockOutRejected, ackVars>>

\* the user answers the permission prompt of requestPermission
promptAnswered ==
    /\ promptPending
    /\ browserPermission = "default"
    /\ \E answer \in {"granted", "denied"} :
           /\ browserPermission' = answer
           /\ storedPermission' = answer
           /\ permissionGranted' = (permissionGranted \/ answer = "granted")
           /\ acksInitiated' = (IF answer = "granted"
                                THEN acksInitiated + ackWaiting
                                ELSE acksInitiated)
    /\ ackWaiting' = 0
    /\ promptPending' = FALSE
    /\ UNCHANGED <<clockVars, envVars, logVars, storeVars, effectVars, flagVars,
                   checkInterval, pendingWorkHours, pendingClockOut, phase,
                   histVars, clockOutRejected, clockOutSummary>>

\* ------------------------------------------------------------------ clock
\* One hour passes.  Scheduled effects run within a frame, so no hour passes
\* while one is scheduled.
Tick ==
    /\ phase = "running"
    /\ ~savePending /\ ~notifyPending
    /\ now < hoursToMilliseconds(StartHour + MaxTicks)
    /\ now' = now + hoursToMilliseconds(1)
    /\ UNCHANGED <<envVars, logVars, storeVars, effectVars, flagVars, permVars,
                   checkInterval, pendingWorkHours, pendingClockOut, phase,
                   histVars, clockOutRejected, ackVars>>

Next ==
    \/ initializeData
    \/ initNotifications
    \/ FlushEffects
    \/ periodicCheck
    \/ onToggleClock
    \/ clockOutCall
    \/ workHoursDelivered
    \/ clockOutSettled
    \/ promptAnswered
    \/ Tick

Spec == Init /\ [][Next]_vars

\* the scheduling the runtime guarantees: afterNextRender callbacks, effect
\* flushes, the setInterval callback and settled promises' continuations run;
\* clicks, prompt answers and the passing of hours are not forced
SpecFair ==
    /\ Init /\ [][Next]_vars
    /\ WF_vars(initializeData)
    /\ WF_vars(initNotifications)
    /\ WF_vars(FlushEffects)
    /\ WF_vars(periodicCheck)
    /\ WF_vars(workHoursDelivered)
    /\ WF_vars(clockOutSettled)

\* the runs that start with the permission prompt unanswered, under one
\* configuration: the clicks of these runs find showClockInNotification waiting
InitClicks ==
    /\ Init
    /\ browserPermission = "default"
    /\ workHoursConfig = [targetHours |-> MaxTargetHours,
                          notificationOffsetHours |-> 0]

SpecClicks == InitClicks /\ [][Next]_vars

TypeOK ==
    /\ thresholdAttempts \in 0..CountCap
    /\ acksInitiated \in 0..MaxEntries
    /\ ackWaiting \in 0..MaxEntries
    /\ pendingWorkHours \in 0..MaxInflight
    /\ pendingClockOut \in 0..MaxInflight
    /\ Len(entries) <= MaxEntries

\* ------------------------------------------------- the event log store
\* The store on its own: notifications are denied, so NotificationService
\* never delivers and never changes its flags; the storage may be damaged and
\* near its quota; the service's methods are also called directly.
InitStore ==
    /\ now = hoursToMilliseconds(StartHour)
    /\ workHoursConfig = [targetHours |-> MaxTargetHours, notificationOffsetHours |-> 0]
    /\ swEnabled = FALSE
    /\ reconstructed = Null
    /\ entries = <<>>
    /\ todayEntries = <<>>
    /\ currentSessionDuration = 0
    /\ idCounter = 0
    /\ isDataLoaded = FALSE
    /\ \E st \in InitialStorage \cup DamagedStorage :
           /\ storedEntries = st.events
           /\ lastAccess = st.marker
           /\ storedCorrupt = st.corrupt
    /\ writeFailed = FALSE
    /\ quotaTight \in BOOLEAN
    /\ savePending = FALSE
    /\ notifyPending = FALSE
    /\ notificationShown = FALSE
    /\ targetReachedNotificationShown = FALSE
    /\ checkInterval = FALSE
    /\ browserPermission = "denied"
    /\ permissionGranted = FALSE
    /\ storedPermission = NoPermission
    /\ promptPending = FALSE
    /\ pendingWorkHours = 0
    /\ pendingClockOut = 0
    /\ phase = "constructed"
    /\ thresholdInitiated = 0
    /\ thresholdDelivered = 0
    /\ thresholdFailed = FALSE
    /\ targetInitiated = 0
    /\ thresholdAttempts = 0
    /\ clockOutRejected = FALSE
    /\ clockOutSummary = Null
    /\ acksInitiated = 0
    /\ ackWaiting = 0

NextStore ==
    \/ initializeData
    \/ initNotifications
    \/ FlushEffects
    \/ onToggleClock
    \/ toggleClock
    \/ clockOutCall
    \/ clearAllData
    \/ Tick

SpecStore == InitStore /\ [][NextStore]_vars

\* ------------------------------------------- calculateSessions on its own
\* the events a caller may hand to calculateSessions: ids in order of
\* creation, timestamps on two instants, so that ties occur
CalcEvents(n) ==
    [id : {n}, type : {"in", "out"},
     timestamp : {hoursToMilliseconds(StartHour), hoursToMilliseconds(StartHour + 1)}]

CalcInputs ==
    UNION { { es \in [1..n -> UNION { CalcEvents(i) : i \in 1..n }] :
                 \A i \in 1..n : es[i].id = i } : n \in 0..MaxCalcLen }

InitSessions ==
    /\ now = hoursToMilliseconds(StartHour + 1)
    /\ workHoursConfig = [targetHours |-> 1, notificationOffsetHours |-> 0]
    /\ swEnabled = FALSE
    /\ reconstructed = Null
    /\ entries = <<>>
    /\ todayEntries \in CalcInputs
    /\ currentSessionDuration = 0
    /\ idCounter = 0
    /\ isDataLoaded = FALSE
    /\ storedEntries = Null
    /\ lastAccess = Null
    /\ storedCorrupt = FALSE
    /\ writeFailed = FALSE
    /\ quotaTight = FALSE
    /\ savePending = FALSE
    /\ notifyPending = FALSE
    /\ notificationShown = FALSE
    /\ targetReachedNotificationShown = FALSE
    /\ checkInterval = FALSE
    /\ browserPermission = "denied"
    /\ permissionGranted = FALSE
    /\ storedPermission = NoPermission
    /\ promptPending = FALSE
    /\ pendingWorkHours = 0
    /\ pendingClockOut = 0
    /\ phase = "constructed"
    /\ thresholdInitiated = 0
    /\ thresholdDelivered = 0
    /\ thresholdFailed = FALSE
    /\ targetInitiated = 0
    /\ thresholdAttempts = 0
    /\ clockOutRejected = FALSE
    /\ clockOutSummary = Null
    /\ acksInitiated = 0
    /\ ackWaiting = 0

\* todaySessions is evaluated: calculateSessions(todayEntries)
reconstruct ==
    /\ reconstructed' = Some(todaySessions)
    /\ UNCHANGED <<now, workHoursConfig, swEnabled, quotaTight, logVars, storeVars,
                   effectVars, flagVars, permVars, checkInterval,
                   pendingWorkHours, pendingClockOut, phase, histVars,
                   clockOutRejected, ackVars>>

\* the same events reach calculateSessions in another order
reorder ==
    /\ \E i \in 1..(Len(todayEntries) - 1) :
           todayEntries' = [todayEntries EXCEPT ![i] = todayEntries[i + 1],
                                                ![i + 1] = todayEntries[i]]
    /\ UNCHANGED <<now, workHoursConfig, swEnabled, quotaTight, reconstructed, entries,
                   currentSessionDuration, idCounter, storeVars, effectVars,
                   flagVars, permVars, checkInterval, pendingWorkHours,
                   pendingClockOut, phase, histVars, clockOutRejected, ackVars>>

NextSessions ==
    \/ reconstruct
    \/ reorder

SpecSessions == InitSessions /\ [][NextSessions]_vars

\* ------------------------------------------------------------------ claims

\* C1: between a clock-in and the next clock-out the threshold alert is
\* delivered at most once and the target-reached alert at most once.
C1_AtMostOncePerStretch ==
    thresholdDelivered <= 1 /\ targetInitiated <= 1

\* C2: within one stretch the target-reached alert is never sent unless the
\* threshold alert has been sent earlier in that stretch.
C2_TargetOnlyAfterThreshold ==
    targetInitiated > 0 => thresholdInitiated > 0

\* clock-out handling still has a step to run: an awaited clock-out delivery,
\* or the effect run that follows the log change
clockOutBusyOf(pending, scheduled, es) ==
    pending > 0 \/ (scheduled /\ ~isClockedInOf(es))

clockOutBusy == clockOutBusyOf(pendingClockOut, notifyPending, entries)

\* C3: when the handling of a clock-out finishes, both sent-flags are false,
\* whatever the flags were before and whether or not permission is granted
\* or the delivery succeeds.
C3_ClockOutResetsFlags ==
    [][(clockOutBusy /\ ~clockOutBusyOf(pendingClockOut', notifyPending', entries'))
          => (~notificationShown' /\ ~targetReachedNotificationShown')]_vars

C3_Witness ==
    /\ Len(entries) > 0
    /\ ~isClockedIn
    /\ entries[Len(entries)].type = "out"
    /\ ~clockOutBusy
    /\ ~permissionGranted
    /\ ~notificationShown /\ ~targetReachedNotificationShown

\* C4: when the delivery of the threshold alert fails the sent-flag is set
\* all the same: in a stretch with a failed attempt the flag is true.
C4_FailedDeliveryKeepsFlag ==
    (isClockedIn /\ thresholdFailed) => notificationShown

\* both thresholds are crossed and neither alert has been sent
bothCrossedNoneSent ==
    /\ isClockedIn
    /\ pollTotalMilliseconds >= notificationThreshold
    /\ pollTotalMilliseconds >= workHoursTarget
    /\ ~notificationShown
    /\ ~targetReachedNotificationShown

\* C5: a poll that finds both thresholds crossed and neither alert sent sends
\* both alerts in that evaluation, the threshold alert first (permission being
\* granted and no delivery of the stretch having failed).
C5_BothAlertsInOnePoll ==
    [][(/\ periodicCheck
        /\ bothCrossedNoneSent
        /\ permissionGranted
        /\ thresholdInitiated = 0 /\ targetInitiated = 0
        /\ ~thresholdFailed')
          => (thresholdInitiated' = 1 /\ targetInitiated' = 1)]_vars

\* what a trigger decides and the flags it leaves when its delivery succeeds
effectOutcome ==
    [threshold |-> effectCallsThreshold,
     target |-> FALSE,
     notificationShown |->
         IF effectResets THEN FALSE
         ELSE IF effectCallsThreshold THEN showWorkHoursNotification(TRUE).shown
         ELSE notificationShown,
     targetReachedNotificationShown |->
         IF effectResets THEN FALSE ELSE targetReachedNotificationShown]

pollOutcome ==
    LET shown == IF pollCallsThreshold THEN showWorkHoursNotification(TRUE).shown
                 ELSE notificationShown
    IN  [threshold |-> pollCallsThreshold,
         target |-> pollCallsTarget(shown),
         notificationShown |-> shown,
         targetReachedNotificationShown |->
             (targetReachedNotificationShown \/ pollCallsTarget(shown))]

\* C6: on the same log, the same now and the same flags the reactive effect
\* and the poll decide the same and leave the same flags.
C6_TriggersAgree ==
    effectOutcome = pollOutcome

\* C7: a threshold alert is initiated only while clocked in, with the worked
\* time at or above target - offset and the threshold flag false.
C7_ThresholdOnlyWhenDue ==
    [][(thresholdInitiated' > thresholdInitiated)
          => (/\ isClockedIn
              /\ pollTotalMilliseconds >= notificationThreshold
              /\ ~notificationShown)]_vars

C7_Witness ==
    thresholdInitiated > 0 /\ isClockedIn

\* C8: calculateSessions returns the same sessions for every order in which
\* the same events are passed, ties in the timestamps included.
C8_OrderIndependent ==
    reconstructed # Null => Value(reconstructed) = calculateSessions(todayEntries)

\* C9: the worked total is never negative, and while the user stays clocked
\* in it does not decrease.
C9_TotalNonNegativeMonotone ==
    [][LET computedNext == totalOf(entries', todayEntries', currentSessionDuration')
           pollNext == pollTotalOf(entries', todayEntries', now')
       IN  (totalWorkTimeToday >= 0 /\ pollTotalMilliseconds >= 0)
              => (/\ computedNext >= 0
                  /\ pollNext >= 0
                  /\ (isClockedIn /\ entries' = entries)
                        => (/\ pollNext >= pollTotalMilliseconds
                            /\ computedNext >= totalWorkTimeToday))]_vars

C9_Witness ==
    /\ isClockedIn
    /\ pollTotalMilliseconds > totalWorkTimeToday
    /\ SumDurations(todaySessions) > 0

\* C10: clockOut() while not clocked in changes neither the log, nor what is
\* persisted, nor the scheduler flags, and schedules nothing.
C10_RejectedClockOutIsNoOp ==
    [][(clockOutCall /\ ~isClockedIn)
          => UNCHANGED <<entries, storedEntries, lastAccess, notificationShown,
                         targetReachedNotificationShown, savePending,
                         notifyPending>>]_vars

C10_Witness ==
    /\ clockOutRejected
    /\ ~isClockedIn
    /\ Len(entries) > 0
    /\ storedEntries = Some(entries)

\* C11: an event accepted by clockIn()/clockOut() stays in the log across
\* every step that is not a full reset (the rollover only removes events of
\* earlier days); in particular an event appended before the start-up load
\* has run is still in the log after the load.
C11_AcceptedEventsKept ==
    [][~clearAllData
          => \A i \in 1..Len(entries) :
                 (/\ entries[i].id >= 1
                  /\ startOfDay(entries[i].timestamp) = startOfDay(now))
                    => \E j \in 1..Len(entries') : entries'[j] = entries[i]]_vars

\* every event of a stored list is dated today
allOfToday(raws) ==
    \A i \in 1..Len(raws) :
        startOfDay(parseTimestamp(raws[i].timestamp)) = startOfDay(now)

C13_RolloverIdempotent ==
    LET once == rollover(storedEntries, lastAccess)
    IN  rollover(once.events, once.marker) = once

\* a running store whose persisted log a rollover would cut down to a part
C13_Witness ==
    /\ phase = "running"
    /\ storedEntries # Null
    /\ LET once == rollover(storedEntries, lastAccess)
       IN  /\ Len(Value(once.events)) > 0
           /\ Len(Value(once.events)) < Len(Value(storedEntries))
           /\ once.marker # lastAccess

\* C14: a run of the persistence effect before the start-up load has finished
\* writes nothing, and one after it whose write succeeds leaves the persisted
\* list equal to (the serialisation of) the full in-memory list.
C14_AppendPersistsFullLog ==
    [][FlushEffects
          => (/\ ~isDataLoaded => UNCHANGED <<storedEntries, storedCorrupt>>
              /\ (savePending /\ isDataLoaded /\ ~writeFailed')
                    => (/\ storedEntries' = Some(stringify(entries'))
                        /\ ~storedCorrupt'))]_vars

C14_Witness ==
    /\ isDataLoaded
    /\ quotaTight
    /\ ~savePending
    /\ ~writeFailed
    /\ Len(entries) >= 2
    /\ entries[Len(entries)].id >= 1
    /\ storedEntries = Some(stringify(entries))

\* the log is empty and nothing is persisted under either key
nothingLeft ==
    /\ entries = <<>>
    /\ ~isClockedIn
    /\ storedEntries = Null
    /\ ~storedCorrupt
    /\ lastAccess = Null

\* C15: clearAllData() leaves the log empty and both keys without data, and
\* the persistence effect it triggers keeps it so.  (A loaded store has both
\* keys empty only after clearAllData: initialization always writes the
\* marker.)
C15_ClearLeavesNothing ==
    [][(\/ clearAllData
        \/ (FlushEffects /\ isDataLoaded /\ savePending /\ nothingLeft))
          => (/\ entries' = <<>>
              /\ ~isClockedInOf(entries')
              /\ storedEntries' = Null
              /\ ~storedCorrupt'
              /\ lastAccess' = Null)]_vars

\* C16: when the persisted log cannot be deserialized, initialization still
\* completes: the load adds nothing to the in-memory log (which is empty
\* unless events were appended before), data is marked as loaded, and the
\* store stays usable: clock actions are accepted and the next successful
\* write persists the log in place of the unreadable text.
C16_LoadFailureDegrades ==
    [][storedCorrupt
          => (/\ initializeData
                    => (entries' = entries /\ isDataLoaded' /\ phase' = "loaded")
              /\ (onToggleClock /\ isDataLoaded)
                    => (/\ Len(entries') = Len(entries) + 1
                        /\ entries'[Len(entries')].timestamp = now
                        /\ savePending')
              /\ (FlushEffects /\ isDataLoaded /\ savePending /\ ~writeFailed')
                    => (storedEntries' = Some(stringify(entries)) /\ ~storedCorrupt'))]_vars

C16_Witness ==
    /\ storedCorrupt
    /\ isDataLoaded
    /\ phase = "running"
    /\ entries = <<>>
    /\ lastAccess = Some(getTodayDateString(now))

\* the stored list holds an event whose timestamp is no date
hasUnparseableTimestamp(stored) ==
    /\ stored # Null
    /\ \E i \in 1..Len(Value(stored)) :
           parseTimestamp(Value(stored)[i].timestamp) = InvalidDate

\* C17: when a persisted event has an unparseable timestamp the whole load
\* counts as failed: no event of that list is in the in-memory log after
\* initialization.
C17_BadTimestampFailsLoad ==
    [][(initializeData /\ ~storedCorrupt
            /\ hasUnparseableTimestamp(rollover(storedEntries, lastAccess).events))
          => entries' = <<>>]_vars

\* C18: a failed persistence write leaves the in-memory log as it is (the
\* appended event included) and the storage untouched, nothing is scheduled to
\* retry it and nothing writes until the log changes again, and the next
\* write that succeeds persists the full in-memory log.
C18_WriteFailureKeepsMemory ==
    [][/\ (FlushEffects /\ savePending /\ isDataLoaded)
             => (/\ entries' = entries
                 /\ ~savePending'
                 /\ writeFailed' => UNCHANGED <<storedEntries, storedCorrupt>>
                 /\ ~writeFailed' => storedEntries' = Some(stringify(entries)))
       /\ (writeFailed /\ ~savePending /\ ~clearAllData)
             => UNCHANGED <<storedEntries, writeFailed>>]_vars

C18_Witness ==
    /\ writeFailed
    /\ ~savePending
    /\ isClockedIn
    /\ entries[Len(entries)].id >= 1
    /\ storedEntries # Some(stringify(entries))

\* C19: isClockedIn is true exactly when session reconstruction over the
\* events of today (the events whose local date is the date of now) ends with
\* a pending 'in'; also after the local date has changed during the run.
C19_ClockedInIffOpenToday ==
    isClockedIn <=> (openSince(todayEntriesOf(entries, now)) # Null)

\* the total of the accounting rules: the closed sessions of today plus the
\* time since the pending clock-in, if there is one
expectedTotalAt(es, t) ==
    LET today == todayEntriesOf(es, t)
        open == openSince(today)
    IN  SumDurations(calculateSessions(today))
            + (IF open # Null THEN t - Value(open) ELSE 0)

\* C20: the total worked today is the sum of the durations of today's closed
\* sessions plus now - openSince while clocked in (plus 0 otherwise), for the
\* service's totalWorkTimeToday and for the total the component displays.
C20_TotalIsClosedPlusOpen ==
    /\ totalWorkTimeToday = expectedTotalAt(entries, now)
    /\ componentTotalWorkTimeToday = expectedTotalAt(entries, now)


\* C21: the hours in the clock-out summary are the total worked today as it
\* is once the closing 'out' has been appended: the closed sessions of today,
\* the one just closed included, rendered with two decimals.
C21_SummaryIsTotalAfterOut ==
    [][(onToggleClock /\ isClockedIn /\ permissionGranted)
          => clockOutSummary' = Some(toFixed2(expectedTotalAt(entries', now)))]_vars

\* a summary of a stretch that lasted at least an hour has been produced
C21_Witness ==
    /\ clockOutSummary # Null
    /\ Value(clockOutSummary) >= 100
    /\ ~isClockedIn

\* C26: once toggleClock() has returned, isClockedIn has the opposite value,
\* and the click's event is the last of the log, so clicks take effect in order.
C26_ToggleFlips ==
    [][(onToggleClock \/ toggleClock)
          => /\ isClockedInOf(entries') = ~isClockedIn
             /\ entries' = Append(entries,
                                  [id |-> idCounter + 1, timestamp |-> now,
                                   type |-> IF isClockedIn THEN "out" ELSE "in"])]_vars

\* two clicks within the same instant: an 'in' and the 'out' that follows it
C26_Witness ==
    /\ Len(entries) >= 2
    /\ entries[Len(entries)].timestamp = entries[Len(entries) - 1].timestamp
    /\ entries[Len(entries) - 1].type = "in"
    /\ entries[Len(entries)].type = "out"
    /\ ~isClockedIn

\* C28: when a new local day begins, both sent-flags are false again, also
\* for a user who stays clocked in across midnight.
C28_NewDayResetsFlags ==
    [][getTodayDateString(now') # getTodayDateString(now)
          => ~notificationShown' /\ ~targetReachedNotificationShown']_vars

C30_HoursUntilTargetClamped ==
    /\ hoursUntilTarget >= 0
    /\ hoursUntilTarget = 0 <=> totalWorkTimeToday >= workHoursTarget
    /\ totalWorkTimeToday < workHoursTarget
          => hoursToMilliseconds(hoursUntilTarget)
                 = workHoursTarget - totalWorkTimeToday
    /\ componentHoursUntilTarget >= 0
    /\ componentHoursUntilTarget = 0 <=> componentTotalWorkTimeToday >= workHoursTarget
    /\ componentTotalWorkTimeToday < workHoursTarget
          => hoursToMilliseconds(componentHoursUntilTarget)
                 = workHoursTarget - componentTotalWorkTimeToday

\* the live total has passed the target while the service's has not reached it
C30_Witness ==
    /\ componentTotalWorkTimeToday > workHoursTarget
    /\ totalWorkTimeToday < workHoursTarget
    /\ hoursUntilTarget > 0
    /\ componentHoursUntilTarget = 0


\* C22: while clocked in with permission granted and a running poll, the
\* threshold alert is sent in every stretch whose total reaches
\* target - offset, no later than the first poll after the crossing: a poll
\* that finds the threshold reached and no alert sent yet in the stretch
\* sends it.
C22_PollSendsThreshold ==
    [][(/\ periodicCheck
        /\ isClockedIn
        /\ permissionGranted
        /\ pollHoursWorked >= workHoursConfig.targetHours
                                  - workHoursConfig.notificationOffsetHours
        /\ thresholdInitiated = 0)
          => thresholdInitiated' > 0]_vars

\* C23: while clocked in with the poll running, once the total has reached
\* the target and the threshold alert has been attempted in the stretch, the
\* target-reached alert is eventually sent (or the stretch ends).
C23_TargetEventuallySent ==
    (/\ isClockedIn
     /\ checkInterval
     /\ pollHoursWorked >= workHoursConfig.targetHours
     /\ thresholdAttempts > 0)
        ~> (targetReachedNotificationShown \/ ~isClockedIn)

\* C24: without permission the threshold alert is attempted at most once in
\* a stretch; polls and effect runs after the first suppressed attempt do
\* not call showWorkHoursNotification again.
C24_DeniedAttemptsOnce ==
    ~permissionGranted => thresholdAttempts <= 1

\* C25 as stated: every clock-in starts exactly one 'clocked in'
\* acknowledgement delivery.
C25_EveryClockInAcknowledged ==
    [][(onToggleClock /\ ~isClockedIn) => acksInitiated' = 1]_vars

\* C25 amended: a clock-in starts exactly one acknowledgement delivery when
\* the browser's permission is granted, whatever the worked time and the
\* sent-flags are; with the prompt open the delivery waits for the answer and
\* is started once if the answer is 'granted'; with permission denied, or the
\* prompt answered 'denied', none is started.
C25_ClockInAcknowledgedIfPermitted ==
    [][/\ (onToggleClock /\ ~isClockedIn)
          => /\ browserPermission = "granted" => acksInitiated' = 1
             /\ browserPermission # "granted" => acksInitiated' = 0
             /\ ackWaiting' = ackWaiting
                    + (IF browserPermission = "default" THEN 1 ELSE 0)
       /\ promptAnswered
          => /\ ackWaiting' = 0
             /\ browserPermission' = "granted"
                    => acksInitiated' = acksInitiated + ackWaiting
             /\ browserPermission' = "denied"
                    => acksInitiated' = acksInitiated]_vars

\* a clock-in past the threshold, with a sent-flag still set, was acknowledged
C25_Witness ==
    /\ isClockedIn
    /\ acksInitiated = 1
    /\ notificationShown
    /\ thresholdInitiated = 0

closingPositions(sorted) ==
    { j \in 2..Len(sorted) : sorted[j].type = "out" /\ sorted[j - 1].type = "in" }

\* C31: of two consecutive 'in' events the first gives no session: the
\* sessions are exactly the pairs of an 'out' and the 'in' directly before it
\* in timestamp order, each 'out' closing at most one session that starts at
\* the latest 'in'.
C31_LatestInStartsSession ==
    [][reconstruct
        => LET sorted == SortByTimestamp(todayEntries)
               sessions == Value(reconstructed')
               closing == closingPositions(sorted)
           IN  /\ Len(sessions) = Cardinality(closing)
               /\ \A k \in 1..Len(sessions) :
                      \E j \in closing :
                          /\ Cardinality({i \in closing : i <= j}) = k
                          /\ sessions[k].clockIn = sorted[j - 1].timestamp
                          /\ sessions[k].clockOut = sorted[j].timestamp]_vars

\* in@t1, in@t2, out@t2 with t1 < t2 was reconstructed: one session from t2
C31_Witness ==
    /\ reconstructed = Some(calculateSessions(todayEntries))
    /\ Len(Value(reconstructed)) = 1
    /\ LET sorted == SortByTimestamp(todayEntries)
       IN  /\ Len(sorted) >= 3
           /\ sorted[1].type = "in" /\ sorted[2].type = "in"
           /\ sorted[3].type = "out"
           /\ sorted[1].timestamp < sorted[2].timestamp
           /\ Value(reconstructed)[1].clockIn = sorted[2].timestamp

\* the positions of the sorted log at which an 'out' has no pending 'in'
strayPositions(sorted) ==
    { j \in 1..Len(sorted) :
          sorted[j].type = "out" /\ (j = 1 \/ sorted[j - 1].type = "out") }

\* the sorted log without its stray 'out' events
withoutStray(sorted) ==
    LET kept == { j \in 1..Len(sorted) : j \notin strayPositions(sorted) }
        nth(k) == CHOOSE j \in kept : Cardinality({i \in kept : i < j}) = k - 1
    IN  [k \in 1..Cardinality(kept) |-> sorted[nth(k)]]

\* C32: an 'out' without a pending 'in' is discarded: the sessions are those
\* of the log without it, the pending state after it is empty, and a log of
\* stray 'out' events alone gives no session and not clocked in.
C32_StrayOutDiscarded ==
    [][reconstruct
        => LET sorted == SortByTimestamp(todayEntries)
           IN  /\ Value(reconstructed') = calculateSessions(withoutStray(sorted))
               /\ \A j \in strayPositions(sorted) :
                      ScanOpen(SubSeq(sorted, 1, j), Null) = Null
               /\ (\A i \in 1..Len(sorted) : sorted[i].type = "out")
                      => /\ Value(reconstructed') = <<>>
                         /\ ~isClockedInOf(todayEntries)
                         /\ openSince(todayEntries) = Null]_vars

\* a log that is one stray 'out' was reconstructed
C32_Witness ==
    /\ reconstructed = Some(<<>>)
    /\ Len(todayEntries) = 1
    /\ todayEntries[1].type = "out"

\* C33: every reconstructed session ends no earlier than it starts, its
\* duration is end - start, and the sessions are in order of their starts
\* without overlap.
C33_SessionsWellFormed ==
    reconstructed # Null
        => LET sessions == Value(reconstructed)
           IN  /\ \A k \in 1..Len(sessions) :
                      /\ sessions[k].clockOut >= sessions[k].clockIn
                      /\ sessions[k].duration
                             = sessions[k].clockOut - sessions[k].clockIn
                      /\ sessions[k].duration >= 0
               /\ \A k \in 1..(Len(sessions) - 1) :
                      /\ sessions[k].clockIn <= sessions[k + 1].clockIn
                      /\ sessions[k].clockOut <= sessions[k + 1].clockIn

\* two sessions were reconstructed from events handed over out of order
C33_Witness ==
    /\ reconstructed # Null
    /\ Len(Value(reconstructed)) = 2
    /\ Value(reconstructed)[1].duration > 0
    /\ todayEntries # SortByTimestamp(todayEntries)


\* events that alternate in, out, in, out, ... starting with an 'in'
alternates(sorted) ==
    \A i \in 1..Len(sorted) :
        sorted[i].type = (IF i % 2 = 1 THEN "in" ELSE "out")

\* C34: in every reachable state the events of today that survive in the log,
\* taken in timestamp order, alternate in, out, in, out, ... starting with an
\* 'in', also after a rollover that purges the 'in' of a session spanning
\* midnight.
C34_LogAlternates ==
    alternates(SortByTimestamp(todayEntriesOf(entries, now)))


\* C35: the flags only take the combinations of Idle/Working, ThresholdSent
\* and TargetSent: the target flag is never set without the threshold flag.
C35_TargetFlagImpliesThresholdFlag ==
    targetReachedNotificationShown => notificationShown

\* the poll has reached TargetSent within a stretch
C35_Witness ==
    /\ isClockedIn
    /\ targetReachedNotificationShown
    /\ notificationShown
    /\ targetInitiated > 0

\* an evaluation of the threshold rule: the effect run or the poll
thresholdEvaluation == (FlushEffects /\ notifyPending) \/ periodicCheck

\* C36: with notificationOffsetHours >= targetHours the firing condition
\* holds at a total of 0, and the first evaluation after a clock-in sends the
\* threshold alert before any time has been worked: an evaluation at total 0
\* in a stretch in which no alert was sent yet sends it (permission granted).
C36_MisconfiguredFiresAtOnce ==
    [][(/\ thresholdEvaluation
        /\ workHoursConfig.notificationOffsetHours >= workHoursConfig.targetHours
        /\ isClockedIn
        /\ pollTotalMilliseconds = 0
        /\ permissionGranted
        /\ thresholdInitiated = 0)
          => thresholdInitiated' > 0]_vars

\* C37: a threshold delivery that completes after the clock-out leaves no
\* flag behind: whenever the user is not clocked in, no delivery is awaited
\* and no effect run is scheduled, both flags are false.
C37_IdleHasNoFlags ==
    (/\ phase = "running"
     /\ ~isClockedIn
     /\ pendingWorkHours = 0
     /\ pendingClockOut = 0
     /\ ~notifyPending)
        => (~notificationShown /\ ~targetReachedNotificationShown)

\* the click's event was appended to the log
appended(kind) ==
    entries' = Append(entries, [id |-> idCounter + 1, timestamp |-> now,
                                type |-> kind])

laterStretch ==
    /\ isClockedIn
    /\ Len(todaySessions) >= 1
    /\ SumDurations(todaySessions) >= workHoursTarget

\* C39: alerts are per stretch: a stretch begun on the same day with the
\* completed time already at the target sends the threshold alert and then
\* the target-reached alert again, each once: never a second one, and no
\* target alert without the threshold alert of the stretch.
C39_LaterStretchAlertsOnce ==
    laterStretch
        => /\ thresholdDelivered <= 1
           /\ targetInitiated <= 1
           /\ targetInitiated > 0 => thresholdInitiated > 0

====
